---- MODULE Spec2Model ----
(***************************************************************************)
(* Model of the two pipeline steps of the trailing-trade bot:              *)
(*   - src/app/cronjob/trailingTradeIndicator/step/get-indicators.js       *)
(*     (execute: candle pattern, RSI, gated lowestPrice, highestPrice)     *)
(*   - src/public/js/CoinWrapperBuySignal.js                               *)
(*     (execute: symbol info, trigger prices, order reconciliation)        *)
(* Both steps mutate one shared record `data` (the trade state).           *)
(*                                                                         *)
(* JavaScript values are tagged records [t, n, d]:                         *)
(*   "num"  the exact rational n/d (d > 0, lowest terms)                   *)
(*   "inf"  +Infinity / -Infinity (sign in n)                              *)
(*   "nan"  NaN          "null"  null          "undefined"  undefined      *)
(*   "minsafe"  Number.MIN_SAFE_INTEGER = -(2^53 - 1), kept symbolic since *)
(*              it is outside the model checker's integer range; it is a  *)
(*              finite number below every price of the model.              *)
(* Floating-point rounding is not modelled: arithmetic is exact.           *)
(*                                                                         *)
(* One behaviour is one tick for one symbol.  Each step fetches the candle *)
(* window itself; the model lets both calls of a tick answer the same      *)
(* window (`candles`).  The steps may run in either order.  A step either  *)
(* completes or throws at one of its statements; a throw ends the tick.   *)
(* RSI.calculate belongs to the technicalindicators package: it is         *)
(* modelled by what that package computes (Wilder smoothing, period 14,    *)
(* values rounded to two decimals, none before the 15th close).            *)
(* Open orders are as the exchange reports them: each has a type and a     *)
(* side string.                                                            *)
(***************************************************************************)
EXTENDS Integers, Sequences, FiniteSets, TLC

\* ------------------------------------------------------------------ bounds
MaxCandles == 18
MaxOrders == 1

\* ------------------------------------------------------ JavaScript values
Abs(x) == IF x < 0 THEN 0 - x ELSE x

RECURSIVE GCD(_, _)
GCD(a, b) == IF b = 0 THEN a ELSE GCD(b, a % b)

Rat(n, d) ==
  LET s == IF d < 0 THEN 0 - 1 ELSE 1
      g == GCD(Abs(n), Abs(d))
  IN  [t |-> "num", n |-> (s * n) \div g, d |-> (s * d) \div g]

Num(n) == [t |-> "num", n |-> n, d |-> 1]
Inf(s) == [t |-> "inf", n |-> s, d |-> 0]
NaN == [t |-> "nan", n |-> 0, d |-> 0]
null == [t |-> "null", n |-> 0, d |-> 0]
undefined == [t |-> "undefined", n |-> 0, d |-> 0]
MIN_SAFE_INTEGER == [t |-> "minsafe", n |-> 0 - 1, d |-> 0]

\* ToNumber coercion applied by the relational and arithmetic operators
ToNumber(v) ==
  CASE v.t = "null" -> Num(0)
    [] v.t = "undefined" -> NaN
    [] OTHER -> v

Sign(v) ==
  CASE v.t = "num" -> (IF v.n > 0 THEN 1 ELSE IF v.n < 0 THEN 0 - 1 ELSE 0)
    [] v.t = "inf" -> v.n
    [] v.t = "minsafe" -> 0 - 1
    [] OTHER -> 0

\* a < b on numbers (false as soon as one side is NaN)
NumLt(a, b) ==
  CASE a.t = "nan" \/ b.t = "nan" -> FALSE
    [] a.t = "inf" -> a.n < 0 /\ ~(b.t = "inf" /\ b.n < 0)
    [] b.t = "inf" -> b.n > 0
    [] a.t = "minsafe" -> b.t = "num"
    [] b.t = "minsafe" -> FALSE
    [] OTHER -> a.n * b.d < b.n * a.d

JsLt(a, b) == NumLt(ToNumber(a), ToNumber(b))
JsGt(a, b) == NumLt(ToNumber(b), ToNumber(a))
JsLe(a, b) ==
  LET x == ToNumber(a)
      y == ToNumber(b)
  IN  x.t # "nan" /\ y.t # "nan" /\ ~NumLt(y, x)

NumMul(a, b) ==
  CASE a.t = "nan" \/ b.t = "nan" -> NaN
    [] a.t = "inf" \/ b.t = "inf" ->
         (IF Sign(a) * Sign(b) = 0 THEN NaN ELSE Inf(Sign(a) * Sign(b)))
    [] OTHER -> Rat(a.n * b.n, a.d * b.d)

NumDiv(a, b) ==
  CASE a.t = "nan" \/ b.t = "nan" -> NaN
    [] a.t = "inf" ->
         (IF b.t = "inf" THEN NaN
          ELSE Inf(IF Sign(b) < 0 THEN 0 - a.n ELSE a.n))
    [] b.t = "inf" -> Num(0)
    [] b.n = 0 -> (IF a.n = 0 THEN NaN ELSE Inf(Sign(a)))
    [] OTHER -> Rat(a.n * b.d, a.d * b.n)

NumSub(a, b) ==
  CASE a.t = "nan" \/ b.t = "nan" -> NaN
    [] a.t = "inf" -> (IF b.t = "inf" /\ b.n = a.n THEN NaN ELSE a)
    [] b.t = "inf" -> Inf(0 - b.n)
    [] OTHER -> Rat(a.n * b.d - b.n * a.d, a.d * b.d)

NumAdd(a, b) == NumSub(a, NumMul(Num(0 - 1), b))

JsMul(a, b) == NumMul(ToNumber(a), ToNumber(b))
JsDiv(a, b) == NumDiv(ToNumber(a), ToNumber(b))
JsSub(a, b) == NumSub(ToNumber(a), ToNumber(b))
JsAdd(a, b) == NumAdd(ToNumber(a), ToNumber(b))

\* zero-based array read: an index outside the array reads undefined
At(arr, i) == IF i >= 0 /\ i < Len(arr) THEN arr[i + 1] ELSE undefined

\* record update that may add the field
Put(rec, key, val) ==
  [f \in DOMAIN rec \cup {key} |-> IF f = key THEN val ELSE rec[f]]

RECURSIVE SeqMin(_)
SeqMin(s) ==
  IF Len(s) = 0 THEN undefined
  ELSE IF Len(s) = 1 THEN s[1]
  ELSE LET m == SeqMin(Tail(s)) IN IF NumLt(m, s[1]) THEN m ELSE s[1]

RECURSIVE SeqMax(_)
SeqMax(s) ==
  IF Len(s) = 0 THEN undefined
  ELSE IF Len(s) = 1 THEN s[1]
  ELSE LET m == SeqMax(Tail(s)) IN IF NumLt(s[1], m) THEN m ELSE s[1]

\* ---------------------------------------------------------------- candles
\* A candle as the exchange reports it; prices are whole numbers here.
Candle(t, o, h, l, c) ==
  [openTime |-> t, open |-> o, high |-> h, low |-> l, close |-> c]

\* the shapes the three most recent candles are drawn from
Green(t) == Candle(t, 1, 3, 1, 2)
Red(t) == Candle(t, 2, 2, 1, 1)
Zero(t) == Candle(t, 0, 0, 0, 0)
CandleKinds == {"green", "red", "zero"}
KindCandle(k, t) ==
  CASE k = "green" -> Green(t) [] k = "red" -> Red(t) [] OTHER -> Zero(t)

\* the older candles follow one of two histories
HistoryShapes == {"zigzag", "flat"}
HistoryClose(shape, i) ==
  IF shape = "flat" \/ i < 1 THEN 2 ELSE IF i % 2 = 1 THEN 1 ELSE 2
HistoryCandle(shape, i) ==
  LET c == HistoryClose(shape, i)
      o == HistoryClose(shape, i - 1)
  IN  Candle(i, o, IF o > c THEN o ELSE c, IF o < c THEN o ELSE c, c)

\* a window of n candles: history first, then the last three kinds
Window(n, shape, kinds) ==
  [i \in 1..n |->
     IF i > n - 3 THEN KindCandle(kinds[3 - (n - i)], i)
     ELSE HistoryCandle(shape, i)]

Windows ==
  {Window(n, shape, kinds) :
     n \in 0..MaxCandles, shape \in HistoryShapes,
     kinds \in [1..3 -> CandleKinds]}

\* ------------------------------------------- get-indicators.js (step one)
flattenCandlesData(cs) ==
  [openTime |-> [i \in 1..Len(cs) |-> Num(cs[i].openTime)],
   high |-> [i \in 1..Len(cs) |-> Num(cs[i].high)],
   low |-> [i \in 1..Len(cs) |-> Num(cs[i].low)],
   close |-> [i \in 1..Len(cs) |-> Num(cs[i].close)]]

parseFloat(x) == Num(x)

\* RSI.calculate of the technicalindicators package: Wilder smoothing,
\* one value per close from the (period+1)-th on, rounded to two decimals.
RECURSIVE Pow(_, _)
Pow(b, e) == IF e = 0 THEN 1 ELSE b * Pow(b, e - 1)

Gain(values, k) ==
  LET diff == values[k].n - values[k - 1].n IN IF diff > 0 THEN diff ELSE 0
Loss(values, k) ==
  LET diff == values[k - 1].n - values[k].n IN IF diff > 0 THEN diff ELSE 0

RECURSIVE SumGain(_, _)
SumGain(values, k) ==
  IF k < 2 THEN 0 ELSE Gain(values, k) + SumGain(values, k - 1)
RECURSIVE SumLoss(_, _)
SumLoss(values, k) ==
  IF k < 2 THEN 0 ELSE Loss(values, k) + SumLoss(values, k - 1)

\* numerator of the average gain at close k over the denominator
\* period^(k - period); the average loss shares that denominator
RECURSIVE AverageGain(_, _, _)
AverageGain(values, k, period) ==
  IF k = period + 1 THEN SumGain(values, k)
  ELSE AverageGain(values, k - 1, period) * (period - 1)
       + Gain(values, k) * Pow(period, k - period - 1)
RECURSIVE AverageLoss(_, _, _)
AverageLoss(values, k, period) ==
  IF k = period + 1 THEN SumLoss(values, k)
  ELSE AverageLoss(values, k - 1, period) * (period - 1)
       + Loss(values, k) * Pow(period, k - period - 1)

\* 100 * g / s in hundredths, rounded half up (toFixed(2))
ToFixed2(g, s) ==
  LET q == (g * 100) \div s
      r == (g * 100) % s
  IN  q * 100 + ((r * 200 + s) \div (2 * s))

RSIValue(values, k, period) ==
  LET g == AverageGain(values, k, period)
      l == AverageLoss(values, k, period)
  IN  IF l = 0 THEN Num(100)
      ELSE IF g = 0 THEN Num(0)
      ELSE Rat(ToFixed2(g, g + l), 100)

RSI_calculate(input) ==
  LET n == Len(input.values)
      m == IF n > input.period THEN n - input.period ELSE 0
  IN  [j \in 1..m |-> RSIValue(input.values, j + input.period, input.period)]

inputRSI(candlesData) == [values |-> candlesData.close, period |-> 14]

isLastCandleGreen(cs) ==
  LET lastCandle == cs[Len(cs) - 1]
  IN  JsLt(parseFloat(lastCandle.open), parseFloat(lastCandle.close))

isPreviousLastCandleRed(cs) ==
  LET previousLastCandle == cs[Len(cs) - 2]
  IN  JsGt(parseFloat(previousLastCandle.open),
           parseFloat(previousLastCandle.close))

previousLastCandleRSI(cs) ==
  LET rsiValues == RSI_calculate(inputRSI(flattenCandlesData(cs)))
  IN  At(rsiValues, Len(rsiValues) - 3)

currentRsi(cs) ==
  LET rsiValues == RSI_calculate(inputRSI(flattenCandlesData(cs)))
  IN  At(rsiValues, Len(rsiValues) - 1)

\* variant: the RSI test admits equality with the threshold
isMeetBuyTrigger_orEqual(cs, rsi) ==
  /\ isLastCandleGreen(cs)
  /\ isPreviousLastCandleRed(cs)
  /\ JsLe(previousLastCandleRSI(cs), rsi)

isMeetBuyTrigger(cs, rsi) ==
  /\ isLastCandleGreen(cs)
  /\ isPreviousLastCandleRed(cs)
  /\ JsLt(previousLastCandleRSI(cs), rsi)

\* variant: the two branches of the conditional swapped
gatedLowestPrice_swapped(cs, meets) ==
  LET candlesData == flattenCandlesData(cs)
  IN  IF meets THEN MIN_SAFE_INTEGER
      ELSE At(candlesData.close, Len(candlesData.close) - 2)

\* the gated lowest price written by the indicator step
gatedLowestPrice(cs, meets) ==
  LET candlesData == flattenCandlesData(cs)
  IN  IF meets THEN At(candlesData.close, Len(candlesData.close) - 2)
      ELSE MIN_SAFE_INTEGER

highestPrice(cs) == SeqMax(flattenCandlesData(cs).high)

indicatorsOf(cs, rsi) ==
  [highestPrice |-> highestPrice(cs),
   lowestPrice |-> gatedLowestPrice(cs, isMeetBuyTrigger(cs, rsi)),
   rsi |-> currentRsi(cs)]

\* ----------------------------------- CoinWrapperBuySignal.js (step two)
Symbol == "BTCUSDT"

\* what binance.client.exchangeInfo() answers
ExchangeInfo ==
  [symbols |->
     <<[symbol |-> Symbol, status |-> "TRADING",
        baseAsset |-> "BTC", baseAssetPrecision |-> "8",
        quoteAsset |-> "USDT", quotePrecision |-> "8",
        orderTypes |-> "LIMIT,STOP_LOSS_LIMIT",
        filters |->
          <<[filterType |-> "PRICE_FILTER", size |-> "0.01"],
            [filterType |-> "LOT_SIZE", size |-> "0.000001"],
            [filterType |-> "MIN_NOTIONAL", size |-> "10"]>>]>>]

FilterOf(info, type) ==
  LET idx == {i \in 1..Len(info.filters) : info.filters[i].filterType = type}
  IN  info.filters[CHOOSE i \in idx : \A j \in idx : i <= j]

\* getSymbolInfo on a cache miss: filter, attach the three filters, pick
finalSymbolInfo ==
  LET idx == {i \in 1..Len(ExchangeInfo.symbols) :
                ExchangeInfo.symbols[i].symbol = Symbol}
      symbolInfo == ExchangeInfo.symbols[CHOOSE i \in idx : \A j \in idx : i <= j]
  IN  [symbol |-> symbolInfo.symbol,
       status |-> symbolInfo.status,
       baseAsset |-> symbolInfo.baseAsset,
       baseAssetPrecision |-> symbolInfo.baseAssetPrecision,
       quoteAsset |-> symbolInfo.quoteAsset,
       quotePrecision |-> symbolInfo.quotePrecision,
       filterLotSize |-> FilterOf(symbolInfo, "LOT_SIZE"),
       filterPrice |-> FilterOf(symbolInfo, "PRICE_FILTER"),
       filterMinNotional |-> FilterOf(symbolInfo, "MIN_NOTIONAL")]

\* the cache holds the JSON of finalSymbolInfo or nothing
getSymbolInfo(cached) ==
  IF cached # {} THEN CHOOSE info \in cached : TRUE ELSE finalSymbolInfo

\* mongo.findOne + _.get(doc, 'lastBuyPrice', null)
getLastBuyPrice(docs) ==
  IF docs = {} THEN null
  ELSE LET lastBuyPriceDoc == CHOOSE doc \in docs : TRUE
       IN  IF "lastBuyPrice" \in DOMAIN lastBuyPriceDoc
           THEN lastBuyPriceDoc.lastBuyPrice
           ELSE null

lowestPrice(cs) == SeqMin(flattenCandlesData(cs).low)
currentPrice(cs) == Num(cs[Len(cs)].close)
buyTriggerPrice(cs, cfg) == JsMul(lowestPrice(cs), cfg.buy.triggerPercentage)
buyDifference(cs, cfg) ==
  JsMul(JsSub(Num(1), JsDiv(currentPrice(cs), buyTriggerPrice(cs, cfg))),
        Num(0 - 100))
buyLimitPrice(cs, cfg) == JsMul(currentPrice(cs), cfg.buy.limitPercentage)

\* variant: the position test is lastBuyPrice >= 0
sellTriggerPrice_orZero(lastBuyPrice, cfg) ==
  IF JsLe(Num(0), lastBuyPrice)
  THEN JsMul(lastBuyPrice, cfg.sell.triggerPercentage)
  ELSE null

sellTriggerPrice(lastBuyPrice, cfg) ==
  IF JsGt(lastBuyPrice, Num(0))
  THEN JsMul(lastBuyPrice, cfg.sell.triggerPercentage)
  ELSE null
sellDifference(cs, lastBuyPrice, cfg) ==
  IF JsGt(lastBuyPrice, Num(0))
  THEN JsMul(JsSub(Num(1), JsDiv(sellTriggerPrice(lastBuyPrice, cfg),
                                 currentPrice(cs))),
             Num(100))
  ELSE null
sellLimitPrice(cs, cfg) == JsMul(currentPrice(cs), cfg.sell.limitPercentage)

\* index of the first balance of the asset, 0 when there is none
BalanceIndex(balances, asset) ==
  LET idx == {i \in 1..Len(balances) : balances[i].asset = asset}
  IN  IF idx = {} THEN 0 ELSE CHOOSE i \in idx : \A j \in idx : i <= j

assetBalance(balances, asset) ==
  IF BalanceIndex(balances, asset) = 0
  THEN [asset |-> asset, free |-> 0, locked |-> 0]
  ELSE balances[BalanceIndex(balances, asset)]

baseAssetTotalBalance(balances, asset) ==
  JsAdd(parseFloat(assetBalance(balances, asset).free),
        parseFloat(assetBalance(balances, asset).locked))

sellCurrentProfit(cs, lastBuyPrice, total) ==
  IF JsGt(lastBuyPrice, Num(0))
  THEN JsMul(JsSub(currentPrice(cs), lastBuyPrice), total)
  ELSE null

sellCurrentProfitPercentage(cs, lastBuyPrice) ==
  IF JsGt(lastBuyPrice, Num(0))
  THEN JsMul(JsSub(Num(1), JsDiv(lastBuyPrice, currentPrice(cs))), Num(100))
  ELSE null

toLowerCase(str) ==
  CASE str \in {"BUY", "Buy", "buy"} -> "buy"
    [] str \in {"SELL", "Sell", "sell"} -> "sell"
    [] OTHER -> str

\* the two annotations every order gets
withCurrentPrice(order, cs) ==
  Put(Put(order, "currentPrice", currentPrice(cs)), "updatedAt", order.time)

buyAnnotated(order, cs, cfg) ==
  Put(Put(Put(order, "limitPrice", buyLimitPrice(cs, cfg)),
          "limitPercentage", cfg.buy.limitPercentage),
      "difference",
      JsMul(JsSub(Num(1), JsDiv(Num(order.stopPrice), buyLimitPrice(cs, cfg))),
            Num(0 - 100)))

minimumProfit(order, lastBuyPrice) ==
  IF JsGt(lastBuyPrice, Num(0))
  THEN JsMul(JsSub(parseFloat(order.price), lastBuyPrice),
             parseFloat(order.origQty))
  ELSE null

minimumProfitPercentage(order, lastBuyPrice) ==
  IF JsGt(lastBuyPrice, Num(0))
  THEN JsMul(JsSub(Num(1), JsDiv(lastBuyPrice, parseFloat(order.price))),
             Num(100))
  ELSE null

sellAnnotated(order, cs, lastBuyPrice, cfg) ==
  Put(Put(Put(Put(Put(order, "limitPrice", sellLimitPrice(cs, cfg)),
                  "limitPercentage", cfg.sell.limitPercentage),
              "difference",
              JsMul(JsSub(Num(1), JsDiv(Num(order.stopPrice),
                                        sellLimitPrice(cs, cfg))),
                    Num(100))),
          "minimumProfit", minimumProfit(order, lastBuyPrice)),
      "minimumProfitPercentage", minimumProfitPercentage(order, lastBuyPrice))

\* variant: no early return for the other order types
newOrder_noEarlyReturn(order, cs, lastBuyPrice, cfg) ==
  LET o1 == withCurrentPrice(order, cs)
      o2 == IF toLowerCase(order.side) = "buy"
            THEN buyAnnotated(o1, cs, cfg) ELSE o1
  IN  IF toLowerCase(order.side) = "sell"
      THEN sellAnnotated(o2, cs, lastBuyPrice, cfg) ELSE o2

\* the body of openOrders.map
newOrder(order, cs, lastBuyPrice, cfg) ==
  LET o1 == withCurrentPrice(order, cs)
  IN  IF order.type # "STOP_LOSS_LIMIT" THEN o1
      ELSE LET o2 == IF toLowerCase(order.side) = "buy"
                     THEN buyAnnotated(o1, cs, cfg) ELSE o1
           IN  IF toLowerCase(order.side) = "sell"
               THEN sellAnnotated(o2, cs, lastBuyPrice, cfg) ELSE o2

newOpenOrders(openOrders, cs, lastBuyPrice, cfg) ==
  [i \in 1..Len(openOrders) |-> newOrder(openOrders[i], cs, lastBuyPrice, cfg)]

RECURSIVE Filter(_, _)
Filter(orders, side) ==
  IF Len(orders) = 0 THEN <<>>
  ELSE IF toLowerCase(orders[1].side) = side
       THEN <<orders[1]>> \o Filter(Tail(orders), side)
       ELSE Filter(Tail(orders), side)

\* variant: the orders are annotated before the last buy price is fetched
TradeStages_ordersFirst ==
  <<"getSymbolInfo", "candles", "lastCandle", "newOpenOrders",
    "getLastBuyPrice", "populate">>

\* the statements of step two in source order; the first four can throw,
\* the last two write to the trade state
TradeStages ==
  <<"getSymbolInfo", "candles", "lastCandle", "getLastBuyPrice",
    "newOpenOrders", "populate">>

StageIndex(stage) ==
  CHOOSE i \in 1..Len(TradeStages) : TradeStages[i] = stage

Before(a, b) == StageIndex(a) < StageIndex(b)

\* the in-place annotation of the orders (newOrder aliases order)
reorganised(d, cs, lastBuyPrice) ==
  [d EXCEPT !.openOrders =
     newOpenOrders(d.openOrders, cs, lastBuyPrice, d.symbolConfiguration)]

baseAssetBalance(d, cs, symbolInfo) ==
  LET b == assetBalance(d.accountInfo.balances, symbolInfo.baseAsset)
      total == baseAssetTotalBalance(d.accountInfo.balances, symbolInfo.baseAsset)
  IN  Put(Put(Put(b, "total", total),
              "estimatedValue", JsMul(total, currentPrice(cs))),
          "updatedAt", d.accountInfo.updateTime)

buySection(d, cs) ==
  [currentPrice |-> currentPrice(cs),
   limitPrice |-> buyLimitPrice(cs, d.symbolConfiguration),
   lowestPrice |-> lowestPrice(cs),
   triggerPrice |-> buyTriggerPrice(cs, d.symbolConfiguration),
   difference |-> buyDifference(cs, d.symbolConfiguration),
   openOrders |-> Filter(d.openOrders, "buy"),
   processMesage |-> "",
   updatedAt |-> "now"]

sellSection(d, cs, lastBuyPrice, symbolInfo) ==
  [currentPrice |-> currentPrice(cs),
   limitPrice |-> sellLimitPrice(cs, d.symbolConfiguration),
   lastBuyPrice |-> lastBuyPrice,
   triggerPrice |-> sellTriggerPrice(lastBuyPrice, d.symbolConfiguration),
   difference |-> sellDifference(cs, lastBuyPrice, d.symbolConfiguration),
   currentProfit |->
     sellCurrentProfit(cs, lastBuyPrice,
       baseAssetTotalBalance(d.accountInfo.balances, symbolInfo.baseAsset)),
   currentProfitPercentage |-> sellCurrentProfitPercentage(cs, lastBuyPrice),
   openOrders |-> Filter(d.openOrders, "sell"),
   processMessage |-> "",
   updatedAt |-> "now"]

\* "Populate data": d already carries the annotated orders
populated(d, cs, lastBuyPrice, symbolInfo) ==
  LET bi == BalanceIndex(d.accountInfo.balances, symbolInfo.baseAsset)
      base == baseAssetBalance(d, cs, symbolInfo)
      written ==
        [indicators |-> [lowestPrice |-> lowestPrice(cs),
                         lastCandle |-> cs[Len(cs)]],
         symbolInfo |-> symbolInfo,
         baseAssetBalance |-> base,
         quoteAssetBalance |->
           assetBalance(d.accountInfo.balances, symbolInfo.quoteAsset),
         buy |-> buySection(d, cs),
         sell |-> sellSection(d, cs, lastBuyPrice, symbolInfo),
         \* the base balance found in accountInfo is the object mutated
         accountInfo |->
           IF bi = 0 THEN d.accountInfo
           ELSE [d.accountInfo EXCEPT !.balances[bi] = base]]
  IN  [f \in DOMAIN d \cup DOMAIN written |->
         IF f \in DOMAIN written THEN written[f] ELSE d[f]]

\* the trade state left behind when the statement `stage` throws
dataAtThrow(d, stage, cs, lastBuyPrice) ==
  IF Before("newOpenOrders", stage) THEN reorganised(d, cs, lastBuyPrice)
  ELSE d

\* ------------------------------------------------------------------ inputs
RsiThresholds == {Num(50), Num(70)}

Configuration(rsi) ==
  [candles |-> [interval |-> "15m", limit |-> MaxCandles],
   buy |-> [enabled |-> TRUE, triggerPercentage |-> Rat(101, 100),
            limitPercentage |-> Rat(102, 100), rsi |-> rsi],
   sell |-> [triggerPercentage |-> Rat(106, 100),
             limitPercentage |-> Rat(98, 100)]]

Order(id, type, side) ==
  [orderId |-> id, type |-> type, side |-> side,
   price |-> id, stopPrice |-> id, origQty |-> 2, time |-> 10 * id]

OrderKinds ==
  <<Order(1, "STOP_LOSS_LIMIT", "BUY"), Order(2, "STOP_LOSS_LIMIT", "SELL"),
    Order(3, "LIMIT", "Buy"), Order(4, "MARKET", "sell")>>

\* up to MaxOrders distinct orders, in the order the exchange lists them
OpenOrderLists ==
  {[i \in 1..Len(ix) |-> OrderKinds[ix[i]]] :
     ix \in {jx \in UNION {[1..k -> 1..Len(OrderKinds)] : k \in 0..MaxOrders} :
               \A a, b \in 1..Len(jx) : a < b => jx[a] < jx[b]}}

AccountInfo ==
  [balances |-> <<[asset |-> "BTC", free |-> 1, locked |-> 1]>>,
   updateTime |-> 5]

LastBuyPriceDocs ==
  {{}, {[key |-> "BTCUSDT-last-buy-price"]}}
  \cup {{[key |-> "BTCUSDT-last-buy-price", lastBuyPrice |-> v]} :
          v \in {null, Num(0), Num(2)}}

\* ------------------------------------------------------------------- state
VARIABLES
  data,             \* the trade state record both steps mutate
  candles,          \* what binance.client.candles answers during the tick
  lastBuyPriceDocs, \* the mongo collection trailing-trade-symbols
  cache,            \* the cached symbol info (empty or one entry)
  done,             \* the steps that completed
  status,           \* "ready", or the statement that threw
  indicatorStep     \* locals of the last indicator step

vars == <<data, candles, lastBuyPriceDocs, cache, done, status, indicatorStep>>

Init ==
  /\ \E rsi \in RsiThresholds, orders \in OpenOrderLists :
       data = [symbol |-> Symbol,
               symbolConfiguration |-> Configuration(rsi),
               accountInfo |-> AccountInfo,
               openOrders |-> orders]
  /\ candles \in Windows
  /\ lastBuyPriceDocs \in LastBuyPriceDocs
  /\ cache \in {{}, {finalSymbolInfo}}
  /\ done = {}
  /\ status = "ready"
  /\ indicatorStep = [ran |-> FALSE, isMeetBuyTrigger |-> FALSE,
                      previousLastCandleRSI |-> undefined]

\* get-indicators.js execute, completing
execute_indicators ==
  /\ status = "ready"
  /\ "indicators" \notin done
  /\ Len(candles) >= 3
  /\ data' = Put(data, "indicators",
                 indicatorsOf(candles, data.symbolConfiguration.buy.rsi))
  /\ indicatorStep' =
       [ran |-> TRUE,
        isMeetBuyTrigger |->
          isMeetBuyTrigger(candles, data.symbolConfiguration.buy.rsi),
        previousLastCandleRSI |-> previousLastCandleRSI(candles)]
  /\ done' = done \cup {"indicators"}
  /\ UNCHANGED <<candles, lastBuyPriceDocs, cache, status>>

\* get-indicators.js execute, throwing: the candles call rejects, or the
\* window has no second-to-last / third-to-last candle (TypeError)
execute_indicators_throws ==
  /\ status = "ready"
  /\ "indicators" \notin done
  /\ \E stage \in {"indicators.candles", "indicators.lastCandle"} :
       /\ stage = "indicators.lastCandle" => Len(candles) < 3
       /\ status' = stage
  /\ UNCHANGED <<data, candles, lastBuyPriceDocs, cache, done, indicatorStep>>

\* CoinWrapperBuySignal.js execute, completing
execute_trade ==
  /\ status = "ready"
  /\ "trade" \notin done
  /\ Len(candles) >= 1
  /\ LET lastBuyPrice == getLastBuyPrice(lastBuyPriceDocs)
         symbolInfo == getSymbolInfo(cache)
     IN  data' = populated(reorganised(data, candles, lastBuyPrice),
                           candles, lastBuyPrice, symbolInfo)
  /\ cache' = {finalSymbolInfo}
  /\ done' = done \cup {"trade"}
  /\ UNCHANGED <<candles, lastBuyPriceDocs, status, indicatorStep>>

\* CoinWrapperBuySignal.js execute, throwing at one of its statements
execute_trade_throws ==
  /\ status = "ready"
  /\ "trade" \notin done
  /\ \E stage \in {"getSymbolInfo", "candles", "lastCandle", "getLastBuyPrice"} :
       /\ stage = "lastCandle" => Len(candles) = 0
       /\ Before("lastCandle", stage) => Len(candles) >= 1
       /\ data' = dataAtThrow(data, stage, candles,
                              getLastBuyPrice(lastBuyPriceDocs))
       /\ cache' = IF Before("getSymbolInfo", stage)
                   THEN {finalSymbolInfo} ELSE cache
       /\ status' = stage
  /\ UNCHANGED <<candles, lastBuyPriceDocs, done, indicatorStep>>

Next ==
  \/ execute_indicators
  \/ execute_indicators_throws
  \/ execute_trade
  \/ execute_trade_throws

Spec == Init /\ [][Next]_vars

\* ================================================================= claims
IsNumber(v) == v.t \in {"num", "inf"}
NonNegative(v) == v.t = "num" /\ v.n >= 0
TickCandle(k) == candles[Len(candles) - k]
SideIsBuy(order) == order.side \in {"BUY", "Buy", "buy"}
SideIsSell(order) == order.side \in {"SELL", "Sell", "sell"}
Elements(seq) == {seq[i] : i \in 1..Len(seq)}

\* ---- C1: the buy-trigger flag is true exactly when the second-to-last
\* candle is green, the third-to-last is red and the RSI of the
\* third-to-last close (the previous-last RSI) is strictly below the
\* configured threshold; the last candle does not take part.
C1_PreviousRsiBelow ==
  LET closes == [i \in 1..(Len(candles) - 2) |-> Num(candles[i].close)]
      rs == RSI_calculate([values |-> closes, period |-> 14])
  IN  /\ Len(rs) > 0
      /\ rs[Len(rs)].n * data.symbolConfiguration.buy.rsi.d
           < data.symbolConfiguration.buy.rsi.n * rs[Len(rs)].d
C1_BuyTriggerFlag ==
  indicatorStep.ran =>
    (indicatorStep.isMeetBuyTrigger <=>
       /\ TickCandle(1).open < TickCandle(1).close
       /\ TickCandle(2).open > TickCandle(2).close
       /\ C1_PreviousRsiBelow)
C1_Witness ==
  /\ indicatorStep.ran
  /\ indicatorStep.isMeetBuyTrigger
  /\ indicatorStep.previousLastCandleRSI.t = "num"

\* ---- C2 (as claimed): when the pattern is not met, the published
\* buy.triggerPrice is below every non-negative price, so the tick's
\* current price cannot reach it.
C2_TriggerUnreachable ==
  (indicatorStep.ran /\ ~indicatorStep.isMeetBuyTrigger /\ "trade" \in done) =>
    /\ JsLt(data.buy.triggerPrice, Num(0))
    /\ ~JsLe(data.buy.currentPrice, data.buy.triggerPrice)

\* ---- C3 (as claimed): lowestPrice, highestPrice and currentPrice are
\* non-negative wherever they appear in indicators, buy and sell.
C3_PricesIn(section) ==
  \A f \in {"lowestPrice", "highestPrice", "currentPrice"} \cap DOMAIN section :
    NonNegative(section[f])
C3_BuySellNonNegative ==
  \A s \in {"buy", "sell"} \cap DOMAIN data : C3_PricesIn(data[s])
C3_AllNonNegative ==
  /\ C3_BuySellNonNegative
  /\ "indicators" \in DOMAIN data => C3_PricesIn(data.indicators)
\* ---- C3 (amended): they are non-negative, except that the
\* indicators.lowestPrice written by the indicator step is
\* Number.MIN_SAFE_INTEGER whenever the pattern is not met.
C3_NonNegativeExceptSentinel ==
  /\ C3_BuySellNonNegative
  /\ "indicators" \in DOMAIN data =>
       /\ "highestPrice" \in DOMAIN data.indicators =>
            NonNegative(data.indicators.highestPrice)
       /\ IF "highestPrice" \in DOMAIN data.indicators
             /\ ~indicatorStep.isMeetBuyTrigger
          THEN data.indicators.lowestPrice = MIN_SAFE_INTEGER
          ELSE NonNegative(data.indicators.lowestPrice)
C3_Witness ==
  /\ done = {"indicators", "trade"}
  /\ "highestPrice" \in DOMAIN data.indicators
  /\ ~indicatorStep.isMeetBuyTrigger
  /\ data.indicators.lowestPrice = MIN_SAFE_INTEGER

\* ---- C4 (as claimed): when the pattern is met, buy.triggerPrice is the
\* close of the second-to-last candle times the buy trigger percentage
\* and buy.lowestPrice is that close.
C4_TriggerFromEffectiveLowest ==
  (indicatorStep.ran /\ indicatorStep.isMeetBuyTrigger /\ "trade" \in done) =>
    /\ data.buy.lowestPrice = Num(TickCandle(1).close)
    /\ data.buy.triggerPrice =
         Rat(TickCandle(1).close * data.symbolConfiguration.buy.triggerPercentage.n,
             data.symbolConfiguration.buy.triggerPercentage.d)

\* ---- C5 (as claimed): with fewer than period + 3 = 17 closes the
\* indicator step does not complete and writes no indicators record, and
\* it never compares an undefined previous-last RSI.
C5_InsufficientData ==
  /\ Len(candles) < 17 =>
       (~indicatorStep.ran /\ "indicators" \notin done)
  /\ indicatorStep.ran => indicatorStep.previousLastCandleRSI # undefined

\* ---- C6: with a persisted lastBuyPrice that is null, missing or zero,
\* sell.triggerPrice, sell.difference and the minimumProfit /
\* minimumProfitPercentage of every sell-side stop-loss-limit order are
\* null; with a positive lastBuyPrice they are all numbers.
C6_NoPosition ==
  \A doc \in lastBuyPriceDocs :
    "lastBuyPrice" \in DOMAIN doc =>
      (doc.lastBuyPrice = null \/ doc.lastBuyPrice = Num(0))
C6_SellStopLossOrders ==
  {o \in Elements(data.sell.openOrders) : o.type = "STOP_LOSS_LIMIT"}
C6_SellSideNulls ==
  "trade" \in done =>
    IF C6_NoPosition
    THEN /\ data.sell.triggerPrice = null
         /\ data.sell.difference = null
         /\ \A o \in C6_SellStopLossOrders :
              o.minimumProfit = null /\ o.minimumProfitPercentage = null
    ELSE /\ IsNumber(data.sell.triggerPrice)
         /\ IsNumber(data.sell.difference)
         /\ \A o \in C6_SellStopLossOrders :
              IsNumber(o.minimumProfit) /\ IsNumber(o.minimumProfitPercentage)
C6_Witness ==
  /\ "trade" \in done
  /\ \E doc \in lastBuyPriceDocs : doc = [key |-> doc.key, lastBuyPrice |-> Num(0)]
  /\ C6_SellStopLossOrders # {}

\* ---- C7 (as claimed): after a successful tick the buy and the sell
\* section carry every field the data model names.
C7_BuyFields ==
  {"currentPrice", "triggerPrice", "limitPrice", "lowestPrice", "difference",
   "rsi", "openOrders", "processMessage"}
C7_SellFields ==
  {"currentPrice", "triggerPrice", "limitPrice", "lastBuyPrice", "difference",
   "currentProfit", "currentProfitPercentage", "openOrders", "processMessage"}
C7_StableShape ==
  done = {"indicators", "trade"} =>
    /\ C7_BuyFields \subseteq DOMAIN data.buy
    /\ C7_SellFields \subseteq DOMAIN data.sell

\* ---- C8 (as claimed): a step keeps every indicators field an earlier
\* step wrote, with its value, except the superseded lowestPrice.
C8_FieldsKept ==
  [][("indicators" \in DOMAIN data /\ "indicators" \in DOMAIN data') =>
       \A f \in DOMAIN data.indicators \ {"lowestPrice"} :
         /\ f \in DOMAIN data'.indicators
         /\ data'.indicators[f] = data.indicators[f]]_vars

\* ---- C9: a step that throws leaves the trade state, open orders
\* included, exactly as it was when the step started.
C9_FailedStepLeavesData ==
  [][(status = "ready" /\ status' # "ready") => data' = data]_vars
C9_Witness ==
  /\ status = "getLastBuyPrice"
  /\ "indicators" \in done
  /\ Len(data.openOrders) > 0

\* ---- C10: an order whose type is not STOP_LOSS_LIMIT gets currentPrice
\* and updatedAt and nothing else, its exchange fields unchanged; every
\* order is listed under buy or sell by its side, case-insensitively.
C10_OtherTypesPassThrough ==
  "trade" \in done =>
    /\ \A o \in Elements(data.openOrders) :
         o.type # "STOP_LOSS_LIMIT" =>
           LET reported == OrderKinds[o.orderId]
           IN  /\ DOMAIN o = DOMAIN reported \cup {"currentPrice", "updatedAt"}
               /\ \A f \in DOMAIN reported : o[f] = reported[f]
    /\ Elements(data.buy.openOrders) =
         {o \in Elements(data.openOrders) : SideIsBuy(o)}
    /\ Elements(data.sell.openOrders) =
         {o \in Elements(data.openOrders) : SideIsSell(o)}
C10_Witness ==
  /\ "trade" \in done
  /\ \E o \in Elements(data.sell.openOrders) : o.type = "MARKET"

====
